---- MODULE Spec2Model ----
(***************************************************************************)
(* Govee H5075 -> InfluxDB v2 collector (govee_h5075_influx.py).           *)
(*                                                                         *)
(* Text is modelled as a sequence of one-character strings, so that the    *)
(* encoder, the escaping and the join are computed character by character. *)
(* A float that is a multiple of 1/1000 is held as a sign and a count of   *)
(* thousandths and rendered the way Python's repr renders it.              *)
(***************************************************************************)
EXTENDS Integers, Sequences, FiniteSets, TLC

\* ------------------------------------------------------------------ bounds
\* advertisement events delivered to the callback in one scan window
MaxEvents == 2
\* largest retry ceiling given to write_v2 when it is exercised on its own
MaxRetries == 3

\* --------------------------------------------------------- program constants
KEY_EC88 == 60552
DefaultMaxRetries == 5
BackoffCap == 30
\* 0x800000, the sign flag of the packed 24-bit value
SignBit == 8388608

\* socket.gethostname(), read once at import
HOSTNAME == <<"p", "i">>

\* -------------------------------------------------------------- text helpers
None == [some |-> FALSE, val |-> <<>>]
Some(v) == [some |-> TRUE, val |-> v]

\* sep.join(parts)
RECURSIVE Join(_, _)
Join(sep, parts) ==
    IF parts = <<>> THEN <<>>
    ELSE IF Len(parts) = 1 THEN Head(parts)
    ELSE Head(parts) \o sep \o Join(sep, Tail(parts))

\* s.replace(c, rep) for a one-character c
RECURSIVE Replace(_, _, _)
Replace(s, c, rep) ==
    IF s = <<>> THEN <<>>
    ELSE (IF Head(s) = c THEN rep ELSE <<Head(s)>>) \o Replace(Tail(s), c, rep)

\* sub in s
Contains(s, sub) ==
    \E i \in 0..(Len(s) - Len(sub)) :
        \A j \in 1..Len(sub) : s[i + j] = sub[j]

\* s.strip(), the only whitespace of the alphabet being the space
RECURSIVE LStrip(_)
LStrip(s) == IF s # <<>> /\ Head(s) = " " THEN LStrip(Tail(s)) ELSE s

RECURSIVE RStrip(_)
RStrip(s) ==
    IF s # <<>> /\ s[Len(s)] = " " THEN RStrip(SubSeq(s, 1, Len(s) - 1)) ELSE s

Strip(s) == RStrip(LStrip(s))

DigitChar(d) == <<"0", "1", "2", "3", "4", "5", "6", "7", "8", "9">>[d + 1]

\* str(n) for n >= 0
RECURSIVE Digits(_)
Digits(n) ==
    IF n < 10 THEN <<DigitChar(n)>> ELSE Digits(n \div 10) \o <<DigitChar(n % 10)>>

\* str(n) for an int
IntStr(n) == IF n < 0 THEN <<"-">> \o Digits(0 - n) ELSE Digits(n)

HexChar(d) ==
    <<"0", "1", "2", "3", "4", "5", "6", "7", "8", "9",
      "A", "B", "C", "D", "E", "F">>[d + 1]

\* payload.hex().upper()
RECURSIVE HexUpper(_)
HexUpper(bytes) ==
    IF bytes = <<>> THEN <<>>
    ELSE <<HexChar(Head(bytes) \div 16), HexChar(Head(bytes) % 16)>>
            \o HexUpper(Tail(bytes))

\* ------------------------------------------------------------------ floats
\* A finite float that is a whole number of thousandths: sign and magnitude
\* (the sign is kept apart because -0.0 prints as "-0.0").
FloatVal(neg, milli) == [t |-> "float", finite |-> TRUE, neg |-> neg, milli |-> milli]
NaN == [t |-> "float", finite |-> FALSE, neg |-> FALSE, milli |-> 0]
Inf == [t |-> "float", finite |-> FALSE, neg |-> FALSE, milli |-> 1]
IntVal(n) == [t |-> "int", n |-> n]
BoolVal(b) == [t |-> "bool", b |-> b]
StrVal(s) == [t |-> "str", s |-> s]
NoneVal == [t |-> "none"]

\* the fraction digits of repr(float): three places, trailing zeros dropped,
\* one digit kept
FracDigits(m) ==
    IF m % 1000 = 0 THEN <<"0">>
    ELSE IF m % 100 = 0 THEN <<DigitChar((m % 1000) \div 100)>>
    ELSE IF m % 10 = 0
         THEN <<DigitChar((m % 1000) \div 100), DigitChar((m % 100) \div 10)>>
    ELSE <<DigitChar((m % 1000) \div 100), DigitChar((m % 100) \div 10),
           DigitChar(m % 10)>>

\* f"{v}" of a finite float
FloatStr(f) ==
    (IF f.neg THEN <<"-">> ELSE <<>>)
        \o Digits(f.milli \div 1000) \o <<".">> \o FracDigits(f.milli)

\* round(x, 3) of x = n / 10000: the halfway case depends on the binary value
\* of the double nearest n / 10000, which tieUp stands for
Round3(n, tieUp) ==
    (n \div 10) + (IF n % 10 > 5 \/ (n % 10 = 5 /\ tieUp) THEN 1 ELSE 0)

\* ------------------------------------------------- packed-24 payload decoder
\* decode_packed_24: the temperature in units of 1/10000 degree C as a sign and
\* a magnitude, the humidity in tenths of a percent, the battery or None.
\* some = FALSE is the None result.
\* decode_packed_24 taking the humidity from the 24 bits, sign flag included
decode_packed_24_KeepSign(payload) ==
    IF Len(payload) < 5
    THEN [some |-> FALSE, neg |-> FALSE, temp |-> 0, rh |-> 0, batt |-> None]
    ELSE LET raw24 == payload[2] * 65536 + payload[3] * 256 + payload[4]
         IN  [some |-> TRUE,
              neg |-> raw24 >= SignBit,
              temp |-> raw24 % SignBit,
              rh |-> raw24 % 1000,
              batt |-> IF payload[5] <= 100 THEN Some(payload[5]) ELSE None]

\* decode_packed_24 giving up the whole reading when the battery byte is
\* out of range
decode_packed_24_DropOnBattery(payload) ==
    IF Len(payload) < 5 \/ payload[5] > 100
    THEN [some |-> FALSE, neg |-> FALSE, temp |-> 0, rh |-> 0, batt |-> None]
    ELSE LET raw24 == payload[2] * 65536 + payload[3] * 256 + payload[4]
         IN  [some |-> TRUE,
              neg |-> raw24 >= SignBit,
              temp |-> raw24 % SignBit,
              rh |-> (raw24 % SignBit) % 1000,
              batt |-> Some(payload[5])]

decode_packed_24(payload) ==
    IF Len(payload) < 5
    THEN [some |-> FALSE, neg |-> FALSE, temp |-> 0, rh |-> 0, batt |-> None]
    ELSE LET raw24 == payload[2] * 65536 + payload[3] * 256 + payload[4]
             is_negative == raw24 >= SignBit
             cleared == raw24 % SignBit
         IN  [some |-> TRUE,
              neg |-> is_negative,
              temp |-> cleared,
              rh |-> cleared % 1000,
              batt |-> IF payload[5] <= 100 THEN Some(payload[5]) ELSE None]

\* ------------------------------------------------------ Influx line protocol
\* lp_escape with the backslash replaced last, after the three replacements
\* that add backslashes
lp_escape_BackslashLast(s) ==
    Replace(Replace(Replace(Replace(s, " ", <<"\\", " ">>),
                            ",", <<"\\", ",">>),
                    "=", <<"\\", "=">>),
            "\\", <<"\\", "\\">>)

lp_escape(s) ==
    Replace(Replace(Replace(Replace(s, "\\", <<"\\", "\\">>),
                            " ", <<"\\", " ">>),
                    ",", <<"\\", ",">>),
            "=", <<"\\", "=">>)

\* the k=v parts of the tags whose value is not None, in dict order
RECURSIVE TagParts(_)
TagParts(tags) ==
    IF tags = <<>> THEN <<>>
    ELSE (IF Head(tags).v.some
          THEN << lp_escape(Head(tags).k) \o <<"=">> \o lp_escape(Head(tags).v.val) >>
          ELSE <<>>)
         \o TagParts(Tail(tags))

\* the text of one field, or no part at all
FieldPart(k, v) ==
    IF v.t = "none" THEN <<>>
    ELSE IF v.t = "bool"
         THEN << k \o <<"=">> \o (IF v.b THEN <<"t", "r", "u", "e">>
                                         ELSE <<"f", "a", "l", "s", "e">>) >>
    ELSE IF v.t = "int" THEN << k \o <<"=">> \o IntStr(v.n) \o <<"i">> >>
    ELSE IF v.t = "float"
         THEN (IF v.finite THEN << k \o <<"=">> \o FloatStr(v) >> ELSE <<>>)
    ELSE << k \o <<"=", "\"">> \o Replace(v.s, "\"", <<"\\", "\"">>) \o <<"\"">> >>

RECURSIVE FieldParts(_)
FieldParts(fields) ==
    IF fields = <<>> THEN <<>>
    ELSE FieldPart(Head(fields).k, Head(fields).v) \o FieldParts(Tail(fields))

\* to_line_protocol without `if not fparts: return ""`
to_line_protocol_NoFieldTest(measurement, tags, fields, ts_ns) ==
    LET tpart == Join(<<",">>, TagParts(tags))
        fparts == FieldParts(fields)
        tagsect == IF tpart # <<>> THEN <<",">> \o tpart ELSE <<>>
    IN  lp_escape(measurement) \o tagsect \o <<" ">>
            \o Join(<<",">>, fparts) \o <<" ">> \o IntStr(ts_ns)

to_line_protocol(measurement, tags, fields, ts_ns) ==
    LET tpart == Join(<<",">>, TagParts(tags))
        fparts == FieldParts(fields)
        tagsect == IF tpart # <<>> THEN <<",">> \o tpart ELSE <<>>
    IN  IF fparts = <<>> THEN <<>>
        ELSE lp_escape(measurement) \o tagsect \o <<" ">>
                \o Join(<<",">>, fparts) \o <<" ">> \o IntStr(ts_ns)

\* ----------------------------------------------------------------- tags
\* d[k] = v on a dict held as a sequence of entries in insertion order
DictSet(d, k, v) ==
    IF \E i \in 1..Len(d) : d[i].k = k
    THEN [i \in 1..Len(d) |-> IF d[i].k = k THEN [k |-> k, v |-> v] ELSE d[i]]
    ELSE Append(d, [k |-> k, v |-> v])

RECURSIVE DictUpdate(_, _)
DictUpdate(d, e) ==
    IF e = <<>> THEN d ELSE DictUpdate(DictSet(d, Head(e).k, Head(e).v), Tail(e))

\* the place of the first "=" of kv, 0 when there is none
FirstEq(kv) ==
    IF \E i \in 1..Len(kv) : kv[i] = "="
    THEN CHOOSE i \in 1..Len(kv) : kv[i] = "=" /\ \A j \in 1..(i - 1) : kv[j] # "="
    ELSE 0

\* the loop of build_tags over --tag k=v
RECURSIVE ExtraTags(_, _)
ExtraTags(acc, extras) ==
    IF extras = <<>> THEN acc
    ELSE LET kv == Head(extras)
             i == FirstEq(kv)
         IN  ExtraTags(IF i = 0 THEN acc
                       ELSE DictSet(acc, Strip(SubSeq(kv, 1, i - 1)),
                                    Some(Strip(SubSeq(kv, i + 1, Len(kv))))),
                       Tail(extras))

build_tags(name, mac, extras) ==
    LET extra_tags == ExtraTags(<<>>, extras)
        model == IF Contains(name, <<"5", "0", "7", "5">>)
                 THEN Some(<<"H", "5", "0", "7", "5">>) ELSE None
    IN  DictUpdate(<< [k |-> <<"s", "e", "n", "s", "o", "r">>,
                       v |-> Some(IF name # <<>> THEN name ELSE mac)],
                      [k |-> <<"m", "a", "c">>, v |-> Some(mac)],
                      [k |-> <<"h", "o", "s", "t">>, v |-> Some(HOSTNAME)],
                      [k |-> <<"m", "o", "d", "e", "l">>, v |-> model] >>,
                   extra_tags)

\* ------------------------------------------------------- the scan callback
\* An advertisement event: local_name and dev_name are <<>> when absent or
\* empty (both are false to `or`), rssi is None or Some(int), man maps the
\* company identifiers present to their payload bytes.
\*
\* cb(dev, adv) up to the encoded line: <<>> when the event adds nothing
cb_line(ev, measurement, extra_tags, print_raw, ts_ns, tieUp) ==
    LET name == IF ev.local_name # <<>> THEN ev.local_name ELSE ev.dev_name
    IN  IF KEY_EC88 \notin DOMAIN ev.man THEN <<>>
        ELSE LET payload == ev.man[KEY_EC88]
                 decoded == decode_packed_24(payload)
             IN  IF ~decoded.some THEN <<>>
                 ELSE LET tags == build_tags(name, ev.address, extra_tags)
                          fields ==
                            << [k |-> <<"t", "e", "m", "p", "_", "c">>,
                                v |-> FloatVal(decoded.neg, Round3(decoded.temp, tieUp))],
                               [k |-> <<"h", "u", "m", "i", "d", "i", "t", "y", "_", "p", "c", "t">>,
                                v |-> FloatVal(FALSE, decoded.rh * 100)],
                               [k |-> <<"b", "a", "t", "t", "e", "r", "y", "_", "p", "c", "t">>,
                                v |-> IF decoded.batt.some THEN IntVal(decoded.batt.val)
                                                           ELSE NoneVal],
                               [k |-> <<"r", "s", "s", "i", "_", "d", "b", "m">>,
                                v |-> IF ev.rssi.some THEN IntVal(ev.rssi.val) ELSE NoneVal] >>
                            \o (IF print_raw
                                THEN << [k |-> <<"p", "a", "y", "l", "o", "a", "d", "_", "h", "e", "x">>,
                                         v |-> StrVal(HexUpper(payload))] >>
                                ELSE <<>>)
                      IN  to_line_protocol(measurement, tags, fields, ts_ns)

\* `if lp: lines.append(lp)`
append_line(lines, lp) == IF lp # <<>> THEN Append(lines, lp) ELSE lines

\* ------------------------------------------------------------------- state
VARIABLES
    \* command line and environment (main, lines 163-178)
    loop, argToken, envToken, print_raw, tag, measurement,
    \* where the process stands, and how it ended
    pc, exitKind,
    \* the exception travelling through scan_once's finally or out of main
    raising,
    \* a SIGINT taken while write_v2 blocks the event loop: the task is
    \* cancelled at its next await
    cancelPending,
    \* outcome of BleakScanner.discover: "none" until it has been called
    prelim,
    \* scan_once: the batch, the events the callback has received (with the
    \* clock reading and rounding direction of each), the listener sessions
    \* started and not yet stopped, and the calls of start and stop
    lines, evlog, active, starts, startsOk, stops,
    \* scan windows entered by this run: 0, 1, or 2 for any larger number
    windows,
    \* calls of write_v2 since the current scan window was entered
    writeCalls,
    \* write_v2: its ceiling, the joined payload, the loop index, the POSTs and
    \* sleeps made, the body of the latest POST, and how the call ended
    max_retries, payload, attempt, posts, sleeps, body, wOutcome,
    \* the argument of the time.sleep in progress inside write_v2, None outside
    slept,
    \* how the previous cycle's delivery ended: "none" before the first cycle
    \* is over, "skipped" when its batch was empty and write_v2 was not called
    prevOutcome,
    \* the answers the endpoint gives to the POSTs of one call, when they are
    \* fixed in advance (<<>>: each answer is chosen when the POST is made)
    endpoint,
    \* the latest point given to to_line_protocol when the encoder is exercised
    \* on points of any shape, and the text it returned
    lpIn, lpOut,
    \* the latest call of decode_packed_24, lp_escape, to_line_protocol or
    \* build_tags when the function is exercised on its own: its name, its
    \* arguments and what it returned
    probe

lpVars == <<lpIn, lpOut, probe>>
cfgVars == <<loop, argToken, envToken, print_raw, tag, measurement>>
scanVars == <<lines, evlog, active, starts, startsOk, stops, windows>>
writeVars == <<payload, attempt, posts, sleeps, body, wOutcome, slept>>
vars == <<lpVars, cfgVars, pc, exitKind, raising, cancelPending, prelim, scanVars,
          writeCalls, max_retries, writeVars, prevOutcome, endpoint>>

\* ------------------------------------------------------------ input domains
Token == <<"t", "o", "k">>

\* --measurement default
DefaultMeasurement == <<"g", "o", "v", "e", "e", "_", "h", "5", "0", "7", "5">>

\* --tag lists
TagArgs == { <<>>, << <<"s", "i", "t", "e", "=", "l", "a", "b", " ", "1">> >> }

\* the output options a run is started with: the defaults, or --print-raw
\* with one --tag
Profiles ==
    { [print_raw |-> FALSE, tag |-> <<>>],
      [print_raw |-> TRUE,
       tag |-> << <<"s", "i", "t", "e", "=", "l", "a", "b", " ", "1">> >>] }

\* advertisement events: another vendor's, a Govee payload too short to decode,
\* a named H5075 with a positive reading, and an unnamed device without RSSI
\* whose reading is negative, with battery byte 150
OtherVendorEvent ==
    [local_name |-> <<>>, dev_name |-> <<"T", "V">>, address |-> <<"C", "3">>,
     rssi |-> Some(0 - 50), man |-> (76 :> <<2, 21>>)]

ShortEvent ==
    [local_name |-> <<>>, dev_name |-> <<>>, address |-> <<"A", "1">>,
     rssi |-> Some(0 - 80), man |-> (KEY_EC88 :> <<0, 1, 63, 145>>)]

NamedEvent ==
    [local_name |-> <<"G", "V", "H", "5", "0", "7", "5">>, dev_name |-> <<>>,
     address |-> <<"A", "1">>, rssi |-> Some(0 - 70),
     man |-> (KEY_EC88 :> <<0, 1, 63, 145, 100, 0>>)]

BareEvent ==
    [local_name |-> <<>>, dev_name |-> <<>>, address |-> <<"B", "2">>,
     rssi |-> None, man |-> (KEY_EC88 :> <<0, 128, 0, 7, 150>>)]

Events == {OtherVendorEvent, ShortEvent, NamedEvent, BareEvent}

\* whether round(t_c, 3) of the event's reading is a halfway case
IsTie(ev) ==
    /\ KEY_EC88 \in DOMAIN ev.man
    /\ decode_packed_24(ev.man[KEY_EC88]).some
    /\ decode_packed_24(ev.man[KEY_EC88]).temp % 10 = 5

\* time.time_ns() at the n-th event of a window: the clock moves on between
\* two events
time_ns(n) == 1000 + n

\* what one POST can come to: the status 204, another status below 400, a
\* status raise_for_status raises on, a transport failure
Outcomes == {"204", "200", "500", "timeout"}

Min(a, b) == IF a < b THEN a ELSE b

TypeOK ==
    /\ loop \in BOOLEAN /\ print_raw \in BOOLEAN /\ tag \in TagArgs
    /\ pc \in {"token", "prelim", "scan_once", "scan_start", "window", "scan_stop",
               "scan_ret", "w_enter", "w_post", "w_sleep", "w_ret", "after",
               "sleep", "exited"}
    /\ exitKind \in {"running", "normal", "no_token", "interrupt", "crash"}
    /\ raising \in {"none", "KeyboardInterrupt", "BleakError"}
    /\ cancelPending \in BOOLEAN
    /\ prelim \in {"none", "adverts", "nothing", "BleakError"}
    /\ active \in 0..1 /\ starts \in 0..1 /\ stops \in 0..1
    /\ windows \in 0..2
    /\ attempt \in 0..max_retries /\ posts \in 0..max_retries
    /\ wOutcome \in {"none", "success", "unchecked", "failed"}

\* the exit status of the process
ExitStatus ==
    CASE exitKind = "no_token" -> 2
      [] exitKind = "crash" -> 1
      [] OTHER -> 0

\* -------------------------------------------------------------------- Init
ScanInit ==
    /\ lines = <<>> /\ evlog = <<>>
    /\ active = 0 /\ starts = 0 /\ startsOk = 0 /\ stops = 0 /\ windows = 0

NoPoint == [called |-> FALSE, measurement |-> <<>>, tags |-> <<>>,
            fields |-> <<>>, ts_ns |-> 0]

NoCall == [fn |-> "none"]

LpInit == lpIn = NoPoint /\ lpOut = <<>> /\ probe = NoCall

WriteInit ==
    /\ payload = <<>> /\ attempt = 0 /\ posts = 0 /\ sleeps = 0
    /\ body = None /\ wOutcome = "none" /\ slept = None

Init ==
    /\ loop \in BOOLEAN
    /\ argToken \in {<<>>, Token}
    /\ envToken \in {<<>>, Token}
    /\ \E p \in Profiles : print_raw = p.print_raw /\ tag = p.tag
    /\ measurement = DefaultMeasurement
    /\ pc = "token" /\ exitKind = "running" /\ raising = "none"
    /\ cancelPending = FALSE /\ prelim = "none"
    /\ ScanInit
    /\ writeCalls = 0
    /\ max_retries = DefaultMaxRetries
    /\ WriteInit /\ prevOutcome = "none"
    /\ endpoint = <<>>
    /\ LpInit

\* ------------------------------------------------------------------- main
\* TokenCheck without the test of the token: the run goes on to the adapter
\* check whatever the token is
TokenCheck_NoTest ==
    /\ pc = "token"
    /\ pc' = "prelim"
    /\ UNCHANGED <<lpVars, cfgVars, prevOutcome,
                   exitKind, raising, cancelPending, prelim, scanVars,
                   writeCalls, max_retries, writeVars, endpoint>>

\* token = args.token or os.getenv("INFLUX_TOKEN", ""); exit 2 without one
TokenCheck ==
    /\ pc = "token"
    /\ LET token == IF argToken # <<>> THEN argToken ELSE envToken
       IN  IF token = <<>>
           THEN pc' = "exited" /\ exitKind' = "no_token"
           ELSE pc' = "prelim" /\ exitKind' = exitKind
    /\ UNCHANGED <<lpVars, cfgVars, prevOutcome,
                   raising, cancelPending, prelim, scanVars, writeCalls,
                   max_retries, writeVars, endpoint>>

\* the adapter check: a BleakError is caught and logged
Discover ==
    /\ pc = "prelim"
    /\ \E r \in {"adverts", "nothing", "BleakError"} : prelim' = r
    /\ pc' = "scan_once"
    /\ UNCHANGED <<lpVars, cfgVars, prevOutcome,
                   exitKind, raising, cancelPending, scanVars, writeCalls,
                   max_retries, writeVars, endpoint>>

\* ---------------------------------------------------------------- scan_once
\* ScanOnce with the batch kept in a list that outlives the call
ScanOnce_KeepLines ==
    /\ pc = "scan_once"
    /\ lines' = lines /\ evlog' = <<>>
    /\ starts' = 0 /\ startsOk' = 0 /\ stops' = 0
    /\ windows' = Min(windows + 1, 2)
    /\ writeCalls' = 0
    /\ pc' = "scan_start"
    /\ UNCHANGED <<lpVars, cfgVars, prevOutcome,
                   exitKind, raising, cancelPending, prelim, active,
                   max_retries, writeVars, endpoint>>

\* the call: lines = [], the callback and the scanner are made
ScanOnce ==
    /\ pc = "scan_once"
    /\ lines' = <<>> /\ evlog' = <<>>
    /\ starts' = 0 /\ startsOk' = 0 /\ stops' = 0
    /\ windows' = Min(windows + 1, 2)
    /\ writeCalls' = 0
    /\ pc' = "scan_start"
    /\ UNCHANGED <<lpVars, cfgVars, prevOutcome,
                   exitKind, raising, cancelPending, prelim, active,
                   max_retries, writeVars, endpoint>>

\* await scanner.start(), outside the try: its BleakError leaves scan_once and
\* main, and asyncio.run raises it to the top level, which catches only
\* KeyboardInterrupt
ScannerStart ==
    /\ pc = "scan_start"
    /\ starts' = starts + 1
    /\ \E r \in {"ok", "BleakError"} :
          IF r = "ok"
          THEN /\ active' = active + 1 /\ startsOk' = startsOk + 1
               /\ pc' = "window"
               /\ UNCHANGED <<exitKind, raising>>
          ELSE /\ pc' = "exited" /\ exitKind' = "crash" /\ raising' = "BleakError"
               /\ UNCHANGED <<active, startsOk>>
    /\ UNCHANGED <<lpVars, cfgVars, prevOutcome,
                   cancelPending, prelim, lines, evlog, stops, windows,
                   writeCalls, max_retries, writeVars, endpoint>>

\* cb putting each new line at the front of the batch
cb_Prepend ==
    /\ pc = "window"
    /\ Len(evlog) < MaxEvents
    /\ \E ev \in Events, tieUp \in BOOLEAN :
          /\ IsTie(ev) \/ ~tieUp
          /\ LET ts_ns == time_ns(Len(evlog))
                 lp == cb_line(ev, measurement, tag, print_raw, ts_ns, tieUp)
             IN  /\ lines' = IF lp # <<>> THEN <<lp>> \o lines ELSE lines
                 /\ evlog' = Append(evlog, [ev |-> ev, ts |-> ts_ns, tieUp |-> tieUp])
    /\ UNCHANGED <<lpVars, cfgVars, prevOutcome,
                   pc, exitKind, raising, cancelPending, prelim, active,
                   starts, startsOk, stops, windows, writeCalls, max_retries,
                   writeVars, endpoint>>

\* cb keeping one line per device address: an event from an address that
\* already has a line in the batch adds nothing
cb_OnePerAddress ==
    /\ pc = "window"
    /\ Len(evlog) < MaxEvents
    /\ \E ev \in Events, tieUp \in BOOLEAN :
          /\ IsTie(ev) \/ ~tieUp
          /\ LET ts_ns == time_ns(Len(evlog))
                 seen == \E i \in 1..Len(evlog) :
                            /\ evlog[i].ev.address = ev.address
                            /\ cb_line(evlog[i].ev, measurement, tag, print_raw,
                                       evlog[i].ts, evlog[i].tieUp) # <<>>
             IN  /\ lines' = IF seen THEN lines
                             ELSE append_line(lines,
                                    cb_line(ev, measurement, tag, print_raw, ts_ns, tieUp))
                 /\ evlog' = Append(evlog, [ev |-> ev, ts |-> ts_ns, tieUp |-> tieUp])
    /\ UNCHANGED <<lpVars, cfgVars, prevOutcome,
                   pc, exitKind, raising, cancelPending, prelim, active,
                   starts, startsOk, stops, windows, writeCalls, max_retries,
                   writeVars, endpoint>>

\* the callback, run by the event loop during the window's sleep
cb ==
    /\ pc = "window"
    /\ Len(evlog) < MaxEvents
    /\ \E ev \in Events, tieUp \in BOOLEAN :
          /\ IsTie(ev) \/ ~tieUp
          /\ LET ts_ns == time_ns(Len(evlog))
             IN  /\ lines' = append_line(lines,
                        cb_line(ev, measurement, tag, print_raw, ts_ns, tieUp))
                 /\ evlog' = Append(evlog, [ev |-> ev, ts |-> ts_ns, tieUp |-> tieUp])
    /\ UNCHANGED <<lpVars, cfgVars, prevOutcome,
                   pc, exitKind, raising, cancelPending, prelim, active,
                   starts, startsOk, stops, windows, writeCalls, max_retries,
                   writeVars, endpoint>>

\* WindowElapsed returning the batch with the listener left running (no
\* finally clause)
WindowElapsed_NoStop ==
    /\ pc = "window"
    /\ pc' = "scan_ret"
    /\ UNCHANGED <<lpVars, cfgVars, prevOutcome,
                   exitKind, raising, cancelPending, prelim, scanVars,
                   writeCalls, max_retries, writeVars, endpoint>>

\* await asyncio.sleep(seconds) returns
WindowElapsed ==
    /\ pc = "window"
    /\ pc' = "scan_stop"
    /\ UNCHANGED <<lpVars, cfgVars, prevOutcome,
                   exitKind, raising, cancelPending, prelim, scanVars,
                   writeCalls, max_retries, writeVars, endpoint>>

\* finally: await scanner.stop(); then the pending exception goes on, or
\* scan_once returns. A session counts as active from the return of start to
\* the call of stop.
ScannerStop ==
    /\ pc = "scan_stop"
    /\ stops' = stops + 1
    /\ active' = active - 1
    /\ \E r \in {"ok", "BleakError"} :
          IF r = "BleakError"
          THEN pc' = "exited" /\ exitKind' = "crash" /\ raising' = "BleakError"
          ELSE IF raising = "KeyboardInterrupt"
          THEN pc' = "exited" /\ exitKind' = "interrupt" /\ raising' = raising
          ELSE pc' = "scan_ret" /\ UNCHANGED <<exitKind, raising>>
    /\ UNCHANGED <<lpVars, cfgVars, prevOutcome,
                   cancelPending, prelim, lines, evlog, starts, startsOk,
                   windows, writeCalls, max_retries, writeVars, endpoint>>

\* ScanReturn without `if lines`: write_v2 is called for every batch
ScanReturn_AlwaysWrite ==
    /\ pc = "scan_ret"
    /\ pc' = "w_enter" /\ writeCalls' = writeCalls + 1
    /\ UNCHANGED <<lpVars, cfgVars, prevOutcome,
                   exitKind, raising, cancelPending, prelim, scanVars,
                   max_retries, writeVars, endpoint>>

\* return lines; `if lines: write_v2(...)`
ScanReturn ==
    /\ pc = "scan_ret"
    /\ IF lines # <<>>
       THEN pc' = "w_enter" /\ writeCalls' = writeCalls + 1
                     /\ prevOutcome' = prevOutcome
       ELSE pc' = "after" /\ writeCalls' = writeCalls
                     /\ prevOutcome' = "skipped"
    /\ UNCHANGED <<lpVars, cfgVars, exitKind, raising, cancelPending, prelim, scanVars,
                   max_retries, writeVars, endpoint>>

\* ----------------------------------------------------------------- write_v2
\* A duration in seconds: a whole number of seconds, plus (part = "some") a
\* fraction strictly between 0 and 1.
Seconds(whole, part) == [whole |-> whole, part |-> part]

\* random.random(), a double of [0, 1), by what the double sum 2**attempt + r
\* comes to: 2**attempt itself (r = 0.0), a value strictly between 2**attempt
\* and 2**attempt + 1, or 2**attempt + 1 itself (r = 1 - 2**-53, where the
\* sum rounds up to the next double)
Jitter == {"zero", "mid", "top"}

\* backoff without the cap of 30 seconds
backoff_NoCap(k, r) ==
    CASE r = "zero" -> Seconds(2^k, "none")
      [] r = "mid" -> Seconds(2^k, "some")
      [] r = "top" -> Seconds(2^k + 1, "none")

\* min(30, (2**attempt) + random.random())
backoff(k, r) ==
    LET sum == CASE r = "zero" -> Seconds(2^k, "none")
                 [] r = "mid" -> Seconds(2^k, "some")
                 [] r = "top" -> Seconds(2^k + 1, "none")
    IN  IF sum.whole >= BackoffCap THEN Seconds(BackoffCap, "none") ELSE sum

\* payload = "\n".join(lp_lines); for attempt in range(max_retries)
WriteEnter ==
    /\ pc = "w_enter"
    /\ payload' = Join(<<"\n">>, lines)
    /\ attempt' = 0 /\ posts' = 0 /\ sleeps' = 0 /\ wOutcome' = "none"
    /\ body' = None /\ slept' = None
    /\ pc' = IF max_retries = 0 THEN "w_ret" ELSE "w_post"
    /\ UNCHANGED <<lpVars, cfgVars, prevOutcome,
                   exitKind, raising, cancelPending, prelim, scanVars,
                   writeCalls, max_retries, endpoint>>

\* Post without the test of the last attempt: every failed POST is followed
\* by a sleep
Post_AlwaysSleep ==
    /\ pc = "w_post"
    /\ posts' = posts + 1
    /\ body' = Some(payload)
    /\ \E o \in Outcomes :
          /\ endpoint # <<>> => o = endpoint[attempt + 1]
          /\ IF o = "204"
             THEN pc' = "w_ret" /\ wOutcome' = "success" /\ slept' = None
             ELSE IF o = "200"
             THEN pc' = "w_ret" /\ wOutcome' = "unchecked" /\ slept' = None
             ELSE /\ pc' = "w_sleep" /\ wOutcome' = wOutcome
                  /\ \E r \in Jitter : slept' = Some(backoff(attempt, r))
    /\ UNCHANGED <<lpVars, cfgVars, prevOutcome,
                   exitKind, raising, cancelPending, prelim, scanVars,
                   writeCalls, max_retries, payload, attempt, sleeps, endpoint>>

\* one requests.post and what follows it inside the loop body, up to the
\* call of time.sleep with its argument computed
Post ==
    /\ pc = "w_post"
    /\ posts' = posts + 1
    /\ body' = Some(payload)
    /\ \E o \in Outcomes :
          /\ endpoint # <<>> => o = endpoint[attempt + 1]
          /\ IF o = "204"
             THEN pc' = "w_ret" /\ wOutcome' = "success" /\ slept' = None
             ELSE IF o = "200"
             \* raise_for_status() raises nothing: the second return
             THEN pc' = "w_ret" /\ wOutcome' = "unchecked" /\ slept' = None
             ELSE IF attempt = max_retries - 1
             THEN pc' = "w_ret" /\ wOutcome' = "failed" /\ slept' = None
             ELSE /\ pc' = "w_sleep" /\ wOutcome' = wOutcome
                  /\ \E r \in Jitter : slept' = Some(backoff(attempt, r))
    /\ UNCHANGED <<lpVars, cfgVars, prevOutcome,
                   exitKind, raising, cancelPending, prelim, scanVars,
                   writeCalls, max_retries, payload, attempt, sleeps, endpoint>>

\* time.sleep returns, then the next attempt
Backoff ==
    /\ pc = "w_sleep"
    /\ sleeps' = sleeps + 1
    /\ attempt' = attempt + 1
    /\ slept' = None
    /\ pc' = "w_post"
    /\ UNCHANGED <<lpVars, cfgVars, prevOutcome,
                   exitKind, raising, cancelPending, prelim, scanVars,
                   writeCalls, max_retries, payload, posts, body, wOutcome, endpoint>>

\* WriteReturn raising the last error to the caller instead of returning
WriteReturn_Raise ==
    /\ pc = "w_ret"
    /\ IF wOutcome = "failed"
       THEN pc' = "exited" /\ exitKind' = "crash"
       ELSE pc' = "after" /\ exitKind' = exitKind
    /\ payload' = <<>> /\ attempt' = 0 /\ posts' = 0 /\ sleeps' = 0
    /\ body' = None /\ wOutcome' = "none" /\ slept' = None
    /\ prevOutcome' = wOutcome
    /\ UNCHANGED <<lpVars, cfgVars, raising, cancelPending, prelim, scanVars,
                   writeCalls, max_retries, endpoint>>

\* write_v2 returns to main: its locals are gone
WriteReturn ==
    /\ pc = "w_ret"
    /\ pc' = "after"
    /\ payload' = <<>> /\ attempt' = 0 /\ posts' = 0 /\ sleeps' = 0
    /\ body' = None /\ wOutcome' = "none" /\ slept' = None
    /\ prevOutcome' = wOutcome
    /\ UNCHANGED <<lpVars, cfgVars, exitKind, raising, cancelPending, prelim, scanVars,
                   writeCalls, max_retries, endpoint>>

\* ------------------------------------------------------ main, after a cycle
\* continuous: await asyncio.sleep(interval); single-shot: main returns. A
\* task cancelled during write_v2 ends here with KeyboardInterrupt, which the
\* top level swallows.
Continue ==
    /\ pc = "after"
    /\ IF cancelPending
       THEN pc' = "exited" /\ exitKind' = "interrupt" /\ raising' = "KeyboardInterrupt"
       ELSE IF loop
       THEN pc' = "sleep" /\ UNCHANGED <<exitKind, raising>>
       ELSE pc' = "exited" /\ exitKind' = "normal" /\ raising' = raising
    /\ UNCHANGED <<lpVars, cfgVars, prevOutcome, cancelPending, prelim, scanVars, writeCalls,
                   max_retries, writeVars, endpoint>>

\* the inter-cycle sleep returns and the loop calls scan_once again
IntervalElapsed ==
    /\ pc = "sleep"
    /\ pc' = "scan_once"
    /\ UNCHANGED <<lpVars, cfgVars, prevOutcome,
                   exitKind, raising, cancelPending, prelim, scanVars,
                   writeCalls, max_retries, writeVars, endpoint>>

\* Interrupt with a window that has no finally clause: the exception leaves
\* scan_once at once
Interrupt_NoFinally ==
    /\ ~cancelPending /\ raising = "none"
    /\ \/ /\ pc \in {"prelim", "scan_start", "sleep", "window"}
          /\ pc' = "exited" /\ exitKind' = "interrupt"
          /\ raising' = "KeyboardInterrupt"
          /\ UNCHANGED cancelPending
       \/ /\ pc \in {"w_post", "w_sleep"}
          /\ cancelPending' = TRUE
          /\ UNCHANGED <<pc, exitKind, raising>>
    /\ UNCHANGED <<lpVars, cfgVars, prevOutcome,
                   prelim, scanVars, writeCalls, max_retries, writeVars,
                   endpoint>>

\* SIGINT. At an await outside the window it ends the run; inside the window
\* it is raised at the sleep and the finally clause runs; while write_v2
\* blocks, the task is only marked cancelled.
Interrupt ==
    /\ ~cancelPending /\ raising = "none"
    /\ \/ /\ pc \in {"prelim", "scan_start", "sleep"}
          /\ pc' = "exited" /\ exitKind' = "interrupt"
          /\ raising' = "KeyboardInterrupt"
          /\ UNCHANGED cancelPending
       \/ /\ pc = "window"
          /\ pc' = "scan_stop" /\ raising' = "KeyboardInterrupt"
          /\ UNCHANGED <<exitKind, cancelPending>>
       \/ /\ pc \in {"w_post", "w_sleep"}
          /\ cancelPending' = TRUE
          /\ UNCHANGED <<pc, exitKind, raising>>
    /\ UNCHANGED <<lpVars, cfgVars, prevOutcome,
                   prelim, scanVars, writeCalls, max_retries, writeVars,
                   endpoint>>

Next ==
    \/ TokenCheck \/ Discover
    \/ ScanOnce \/ ScannerStart \/ cb \/ WindowElapsed \/ ScannerStop \/ ScanReturn
    \/ WriteEnter \/ Post \/ Backoff \/ WriteReturn
    \/ Continue \/ IntervalElapsed
    \/ Interrupt

Spec == Init /\ [][Next]_vars

\* ------------------------------------------------------- write_v2 on its own
\* A batch of one or two lines, any ceiling up to MaxRetries, and an endpoint
\* whose answer to each of the POSTs is fixed in advance.
SampleBatches ==
    { << cb_line(NamedEvent, DefaultMeasurement, <<>>, FALSE, time_ns(0), FALSE) >>,
      << cb_line(NamedEvent, DefaultMeasurement, <<>>, FALSE, time_ns(0), FALSE),
         cb_line(BareEvent, DefaultMeasurement, <<>>, FALSE, time_ns(1), FALSE) >> }

InitW ==
    /\ loop = FALSE /\ argToken = Token /\ envToken = <<>>
    /\ print_raw = FALSE /\ tag = <<>> /\ measurement = DefaultMeasurement
    /\ pc = "w_enter" /\ exitKind = "running" /\ raising = "none"
    /\ cancelPending = FALSE /\ prelim = "none"
    /\ lines \in SampleBatches
    /\ evlog = <<>> /\ active = 0 /\ starts = 0 /\ startsOk = 0 /\ stops = 0
    /\ windows = 0
    /\ writeCalls = 1
    /\ max_retries \in 0..MaxRetries
    /\ WriteInit /\ prevOutcome = "none"
    /\ endpoint \in [1..max_retries -> Outcomes]
    /\ LpInit

NextW == WriteEnter \/ Post \/ Backoff

SpecW == InitW /\ [][NextW]_vars

\* ------------------------------------- the encoder on points of any shape
\* A scan window whose callback is handed points with any mix of absent,
\* non-finite and valid field values, followed by the delivery of its batch:
\* lines 148-150 of the callback, then the program as it is.
PointTags ==
    << [k |-> <<"s">>, v |-> Some(<<"a", " ", "b">>)],
       [k |-> <<"n">>, v |-> None] >>

FieldMaps ==
    { << [k |-> <<"x">>, v |-> x], [k |-> <<"y">>, v |-> y] >> :
        x \in {NoneVal, NaN, BoolVal(TRUE)},
        y \in {NoneVal, Inf, FloatVal(FALSE, 21500), StrVal(<<"a", " ", "b">>)} }

InitLP ==
    /\ loop = FALSE /\ argToken = Token /\ envToken = <<>>
    /\ print_raw = FALSE /\ tag = <<>> /\ measurement = <<"m">>
    /\ pc = "window" /\ exitKind = "running" /\ raising = "none"
    /\ cancelPending = FALSE /\ prelim = "adverts"
    /\ lines = <<>> /\ evlog = <<>>
    /\ active = 1 /\ starts = 1 /\ startsOk = 1 /\ stops = 0 /\ windows = 1
    /\ writeCalls = 0
    /\ max_retries = 2
    /\ WriteInit /\ prevOutcome = "none"
    /\ endpoint = <<>>
    /\ LpInit

\* lp = to_line_protocol(measurement, tags, fields, ts_ns); if lp: lines.append(lp)
EncodePoint ==
    /\ pc = "window"
    /\ Len(lines) < MaxEvents
    /\ \E fields \in FieldMaps :
          LET ts_ns == time_ns(Len(lines))
              lp == to_line_protocol(measurement, PointTags, fields, ts_ns)
          IN  /\ lpIn' = [called |-> TRUE, measurement |-> measurement,
                          tags |-> PointTags, fields |-> fields, ts_ns |-> ts_ns]
              /\ lpOut' = lp
              /\ lines' = append_line(lines, lp)
    /\ UNCHANGED <<probe, cfgVars, prevOutcome,
                   pc, exitKind, raising, cancelPending, prelim, evlog,
                   active, starts, startsOk, stops, windows, writeCalls,
                   max_retries, writeVars, endpoint>>

NextLP ==
    \/ EncodePoint
    \/ WindowElapsed \/ ScannerStop \/ ScanReturn
    \/ WriteEnter \/ Post \/ Backoff \/ WriteReturn
    \/ Continue

SpecLP == InitLP /\ [][NextLP]_vars

\* ------------------------------------------------------------ fair behaviour
\* Continuous mode with a token. The program's own steps are taken whenever
\* they can be: a sleep ends, a call returns. Events and SIGINT are the
\* environment's and need not happen.
InitLive ==
    /\ Init
    /\ loop /\ argToken = Token /\ envToken = <<>>
    /\ ~print_raw /\ tag = <<>>

Program ==
    \/ TokenCheck \/ Discover
    \/ ScanOnce \/ ScannerStart \/ WindowElapsed \/ ScannerStop \/ ScanReturn
    \/ WriteEnter \/ Post \/ Backoff \/ WriteReturn
    \/ Continue \/ IntervalElapsed

LiveSpec == InitLive /\ [][Next]_vars /\ WF_vars(Program)

\* ================================================================ properties
InScanOnce == pc \in {"scan_start", "window", "scan_stop"}
InWrite == pc \in {"w_enter", "w_post", "w_sleep", "w_ret"}
Interrupted == exitKind = "interrupt"

\* C1: with a ceiling M >= 1 and 1 <= N <= M, an endpoint that answers the
\* first N-1 POSTs with any status other than 204 and the N-th with 204 gets
\* exactly N POSTs and the call ends as success.
C1_NAttemptsThenSuccess ==
    (pc = "w_ret" /\ max_retries >= 1) =>
        \A N \in 1..max_retries :
            ( /\ \A i \in 1..(N - 1) : endpoint[i] \in {"200", "500"}
              /\ endpoint[N] = "204" )
            => (posts = N /\ wOutcome = "success")

\* C2: with a ceiling M >= 1, an endpoint that never answers 204 (another
\* status or a transport failure every time) gets exactly M POSTs, after
\* which the failure is logged and write_v2 returns normally.
C2_CeilingThenLoggedFailure ==
    (pc = "w_ret" /\ max_retries >= 1
        /\ \A i \in 1..max_retries : endpoint[i] # "204")
    => (posts = max_retries /\ wOutcome = "failed")

\* C3 as stated: whenever scan_once has been left, stop has been invoked once
\* for each start that was invoked, no session is active, and at most one
\* session is active at any time.
C3_StopForEveryStartInvoked ==
    /\ active <= 1
    /\ ~InScanOnce => (stops = starts /\ active = 0)

\* C3 as amended: whenever scan_once has been left, by return, interrupt or
\* failure, stop has been invoked exactly once for each start that returned (a
\* start that raised is followed by no stop), no session is active, and at
\* most one session is active at any time.
C3_StopForEveryStartedSession ==
    /\ active <= 1
    /\ active = startsOk - stops
    /\ ~InScanOnce => (stops = startsOk /\ active = 0)

\* an interrupt arrived during the window and the listener was stopped
C3_Witness == Interrupted /\ startsOk = 1 /\ stops = 1 /\ evlog # <<>>

\* C4: scan windows and deliveries are strictly sequential: no POST attempt
\* (nor any other step of write_v2) happens while a scan session is active, no
\* scan window starts while a delivery has not returned, and two scan windows
\* never overlap.
C4_ScanAndDeliverySequential ==
    /\ active <= 1
    /\ InWrite => active = 0
    /\ (InScanOnce \/ active > 0) =>
          (posts = 0 /\ sleeps = 0 /\ body = None /\ wOutcome = "none")

\* a retry of the second cycle's delivery
C4_Witness == loop /\ windows >= 2 /\ pc = "w_post" /\ sleeps >= 1

\* C5: without a non-empty token from --token or INFLUX_TOKEN, main exits with
\* status 2 before anything is scanned: no preliminary discover, no scan
\* window, no POST.
C5_NoTokenNoScan ==
    (argToken = <<>> /\ envToken = <<>>) =>
        /\ pc \in {"token", "exited"}
        /\ pc = "exited" => (exitKind = "no_token" /\ ExitStatus = 2)
        /\ prelim = "none" /\ windows = 0 /\ starts = 0 /\ active = 0
        /\ writeCalls = 0 /\ posts = 0 /\ body = None

C5_Witness == argToken = <<>> /\ envToken = <<>> /\ pc = "exited"

\* C6: a listener failure is never fatal: whether the preliminary check or the
\* start of the listener inside a scan window raises it, the process keeps
\* running (that window yields an empty batch and the next cycle takes place).
C6_ListenerFailureNotFatal == ~(exitKind = "crash" /\ raising = "BleakError")

\* the last attempt of a delivery in continuous mode has failed and been logged
FinalFailure == loop /\ pc = "w_ret" /\ wOutcome = "failed"

\* the start of the window after that one has been invoked, on an empty batch
NextWindowStarted == starts = 1 /\ stops = 0 /\ lines = <<>> /\ evlog = <<>>

\* C7: in continuous mode a delivery failing on its last attempt is not fatal:
\* write_v2 returns, and unless an interrupt arrives the loop reaches the
\* inter-cycle sleep and then starts the next scan window with a fresh batch.
C7_FailedDeliveryThenNextCycle ==
    /\ [](FinalFailure => exitKind = "running")
    /\ FinalFailure ~> (pc = "sleep" \/ Interrupted)
    /\ FinalFailure ~> (NextWindowStarted \/ Interrupted)

C7_Witness == FinalFailure /\ posts = max_retries /\ ~cancelPending

\* C8: single-shot mode runs exactly one scan window and exits, calling write_v2
\* once if the batch is non-empty and never if it is empty; in both modes an
\* empty batch is no error and causes no POST.
C8_SingleShotOneWindow ==
    /\ ~loop =>
          /\ windows <= 1 /\ writeCalls <= 1
          /\ exitKind = "normal" =>
                /\ windows = 1 /\ starts = 1 /\ stops = 1
                /\ writeCalls = IF lines # <<>> THEN 1 ELSE 0
                /\ ExitStatus = 0
    /\ (InWrite \/ posts > 0 \/ writeCalls > 0) => lines # <<>>
    /\ body.some => body.val # <<>>

\* a single-shot run that saw events, none of them qualifying, and ended
C8_Witness == ~loop /\ exitKind = "normal" /\ lines = <<>> /\ evlog # <<>>

\* every field value is None or a float that is not finite
AllAbsent(fields) ==
    \A i \in 1..Len(fields) :
        fields[i].v.t = "none" \/ (fields[i].v.t = "float" /\ ~fields[i].v.finite)

\* the place of the first space of a line that no backslash escapes (0: none):
\* the end of the measurement and tags
RECURSIVE FirstBareSpace(_, _)
FirstBareSpace(line, i) ==
    IF i > Len(line) THEN 0
    ELSE IF line[i] = "\\" THEN FirstBareSpace(line, i + 2)
    ELSE IF line[i] = " " THEN i
    ELSE FirstBareSpace(line, i + 1)

\* the place of the last space of a line (0: none): the start of the timestamp
LastSpace(line) ==
    IF \E i \in 1..Len(line) : line[i] = " "
    THEN CHOOSE i \in 1..Len(line) :
            line[i] = " " /\ \A j \in (i + 1)..Len(line) : line[j] # " "
    ELSE 0

\* the field section of a line, between those two
FieldSection(line) ==
    SubSeq(line, FirstBareSpace(line, 1) + 1, LastSpace(line) - 1)

\* the line carries at least one field: a key, an equals sign, a value
HasField(line) ==
    /\ FirstBareSpace(line, 1) > 0
    /\ LastSpace(line) > FirstBareSpace(line, 1)
    /\ \E i \in 2..(Len(FieldSection(line)) - 1) : FieldSection(line)[i] = "="

\* text.split("\n")
RECURSIVE SplitLines(_)
SplitLines(text) ==
    IF \E i \in 1..Len(text) : text[i] = "\n"
    THEN LET i == CHOOSE i \in 1..Len(text) :
                    text[i] = "\n" /\ \A j \in 1..(i - 1) : text[j] # "\n"
         IN  <<SubSeq(text, 1, i - 1)>> \o SplitLines(SubSeq(text, i + 1, Len(text)))
    ELSE <<text>>

\* C9: to_line_protocol returns the empty string whenever every field value
\* is None or a non-finite float; every line held in a batch and every line of
\* a POST body carries at least one field; the empty result is never appended.
C9_NoFieldlessLine ==
    /\ (lpIn.called /\ AllAbsent(lpIn.fields)) => lpOut = <<>>
    /\ \A i \in 1..Len(lines) : HasField(lines[i])
    /\ body.some =>
          LET sent == SplitLines(body.val)
          IN  \A i \in 1..Len(sent) : HasField(sent[i])

\* a point without any valid field was encoded after a good one, and dropped
C9_Witness ==
    /\ lpIn.called /\ AllAbsent(lpIn.fields) /\ lpOut = <<>>
    /\ Len(lines) = 1

\* the lines the callback makes of the events received, in their order
RECURSIVE EncodedLines(_)
EncodedLines(log) ==
    IF log = <<>> THEN <<>>
    ELSE LET e == Head(log)
             lp == cb_line(e.ev, measurement, tag, print_raw, e.ts, e.tieUp)
         IN  (IF lp # <<>> THEN <<lp>> ELSE <<>>) \o EncodedLines(Tail(log))

IsPrefix(s, t) == Len(s) <= Len(t) /\ SubSeq(t, 1, Len(s)) = s

\* C10: the batch only grows at its end during a window and is delivered in
\* capture order: while the window is open the batch is the encoded lines of
\* the events received so far, in the order received; once it has closed the
\* batch no longer changes; and the body of every POST attempt is those lines
\* joined by newlines, the same at every retry.
C10_CaptureOrder ==
    /\ []((InScanOnce \/ pc = "scan_ret") => lines = EncodedLines(evlog))
    /\ [][lines' # lines =>
              \/ pc = "window" /\ IsPrefix(lines, lines')
              \/ pc = "scan_once" /\ lines' = <<>>]_vars
    /\ [][evlog' # evlog => (pc = "window" \/ pc = "scan_once")]_vars
    /\ []((InWrite /\ pc # "w_enter") => payload = Join(<<"\n">>, lines))
    /\ [](body.some => body.val = Join(<<"\n">>, lines))
    /\ [][(body.some /\ body'.some) => body' = body]_vars

\* a retry carrying two different lines
C10_Witness ==
    /\ body.some /\ posts >= 2
    /\ Len(lines) = 2 /\ lines[1] # lines[2]

\* ------------------------------------------------ decode_packed_24 on its own
\* Every payload of 0 to MaxPayloadLen bytes cut from a frame whose three
\* value bytes and battery byte range over the values at which the decoder
\* branches: the sign bit set and clear, the low 23 bits zero, small and all
\* ones, the battery at and above 100.
MaxPayloadLen == 6

ValueHighBytes == {0, 1, 127, 128, 129, 255}
ValueMidBytes == {0, 63, 255}
ValueLowBytes == {0, 7, 145, 255}
BatteryBytes == {0, 100, 101, 255}

Frame(b1, b2, b3, bt, n) ==
    [i \in 1..n |-> CASE i = 2 -> b1 [] i = 3 -> b2 [] i = 4 -> b3
                       [] i = 5 -> bt [] OTHER -> 0]

Payloads ==
    { Frame(b1, b2, b3, bt, n) :
        b1 \in ValueHighBytes, b2 \in ValueMidBytes, b3 \in ValueLowBytes,
        bt \in BatteryBytes, n \in 0..MaxPayloadLen }

\* the program's other variables while a function is exercised on its own
Aside ==
    /\ loop = FALSE /\ argToken = Token /\ envToken = <<>>
    /\ print_raw = FALSE /\ tag = <<>> /\ measurement = DefaultMeasurement
    /\ pc = "window" /\ exitKind = "running" /\ raising = "none"
    /\ cancelPending = FALSE /\ prelim = "adverts"
    /\ lines = <<>> /\ evlog = <<>>
    /\ active = 1 /\ starts = 1 /\ startsOk = 1 /\ stops = 0 /\ windows = 1
    /\ writeCalls = 0
    /\ max_retries = DefaultMaxRetries
    /\ WriteInit /\ prevOutcome = "none"
    /\ endpoint = <<>>
    /\ lpIn = NoPoint /\ lpOut = <<>>

asideVars ==
    <<lpIn, lpOut, cfgVars, pc, exitKind, raising, cancelPending, prelim, scanVars,
      writeCalls, max_retries, writeVars, prevOutcome, endpoint>>

InitDecode ==
    /\ Aside
    /\ \E p \in Payloads :
          probe = [fn |-> "decode_packed_24", done |-> FALSE, payload |-> p,
                   out |-> decode_packed_24(<<>>)]

\* decoded = decode_packed_24(payload)
DecodeCall ==
    /\ probe.fn = "decode_packed_24" /\ ~probe.done
    /\ probe' = [probe EXCEPT !.done = TRUE,
                              !.out = decode_packed_24(probe.payload)]
    /\ UNCHANGED asideVars

NextDecode == DecodeCall

SpecDecode == InitDecode /\ [][NextDecode]_vars

\* the payload with bit 23 of its 24-bit value inverted
FlipSign(p) ==
    [p EXCEPT ![2] = IF p[2] >= 128 THEN p[2] - 128 ELSE p[2] + 128]

\* bit 23 and the low 23 bits of the big-endian value at offsets 1..3, read
\* off the bytes
Bit23(p) == (p[2] \div 128) = 1
Low23(p) == (p[2] % 128) * 65536 + p[3] * 256 + p[4]

Decoded == probe.fn = "decode_packed_24" /\ probe.done

C12_ReadingIffFiveBytes ==
    Decoded =>
        /\ probe.out.some = (Len(probe.payload) >= 5)
        /\ Len(probe.payload) >= 5 =>
              LET charged == decode_packed_24([probe.payload EXCEPT ![5] = 100])
              IN  /\ probe.out.batt.some = (probe.payload[5] <= 100)
                  /\ probe.out.batt.some => probe.out.batt.val = probe.payload[5]
                  /\ charged.some /\ charged.batt = Some(100)
                  /\ probe.out.neg = charged.neg
                  /\ probe.out.temp = charged.temp
                  /\ probe.out.rh = charged.rh

\* a 5-byte payload with battery byte 255: a reading without battery
C12_Witness ==
    /\ Decoded /\ Len(probe.payload) = 5 /\ probe.payload[5] = 255
    /\ probe.out.some /\ ~probe.out.batt.some /\ probe.out.temp = 81809

\* ------------------------------------------------------ lp_escape on its own
\* Every string of at most MaxStrLen characters over the four characters the
\* rule rewrites and one it leaves alone.
MaxStrLen == 3

Alphabet == {"\\", " ", ",", "=", "a"}

Strings == UNION { [1..n -> Alphabet] : n \in 0..MaxStrLen }

InitEscape ==
    /\ Aside
    /\ \E s \in Strings : probe = [fn |-> "lp_escape", done |-> FALSE, s |-> s,
                                    out |-> <<>>]

\* lp_escape(s)
EscapeCall ==
    /\ probe.fn = "lp_escape" /\ ~probe.done
    /\ probe' = [probe EXCEPT !.done = TRUE, !.out = lp_escape(probe.s)]
    /\ UNCHANGED asideVars

NextEscape == EscapeCall

SpecEscape == InitEscape /\ [][NextEscape]_vars

\* ------------------------------------------- to_line_protocol on odd names
\* A point with one tag and one integer field whose measurement, tag key, tag
\* value and field key are plain or hold one of the characters the escaping
\* rule rewrites.
Names ==
    { <<"a">>, <<"a", " ", "b">>, <<"a", ",", "b">>, <<"a", "=", "b">>,
      <<"a", "\\">> }

InitNames ==
    /\ Aside
    /\ \E m \in Names, tk \in Names, tv \in Names, fk \in Names :
          probe = [fn |-> "to_line_protocol", done |-> FALSE,
                   measurement |-> m,
                   tags |-> << [k |-> tk, v |-> Some(tv)] >>,
                   fields |-> << [k |-> fk, v |-> IntVal(1)] >>,
                   ts_ns |-> time_ns(0), out |-> <<>>]

\* to_line_protocol(measurement, tags, fields, ts_ns)
EncodeNames ==
    /\ probe.fn = "to_line_protocol" /\ ~probe.done
    /\ probe' = [probe EXCEPT
                   !.done = TRUE,
                   !.out = to_line_protocol(probe.measurement, probe.tags,
                                            probe.fields, probe.ts_ns)]
    /\ UNCHANGED asideVars

NextNames == EncodeNames

SpecNames == InitNames /\ [][NextNames]_vars

\* the characters the escaping rule rewrites
Special == {"\\", " ", ",", "="}

\* s[i] stands after an odd run of backslashes: it is escaped
IsEscaped(s, i) ==
    LET run == CHOOSE n \in 0..(i - 1) :
                   /\ \A j \in (i - n)..(i - 1) : s[j] = "\\"
                   /\ (i - n - 1 >= 1 => s[i - n - 1] # "\\")
    IN  run % 2 = 1

\* the occurrences of c in s that no backslash escapes
BareCount(s, c) ==
    Cardinality({ i \in 1..Len(s) : s[i] = c /\ ~IsEscaped(s, i) })

NamesEncoded == probe.fn = "to_line_protocol" /\ probe.done

\* C13: to_line_protocol escapes the measurement name, every tag key, every
\* tag value and every field key: the only unescaped spaces, commas and
\* equals signs of the line are its separators. For a point with one tag and
\* one integer field these are two spaces, one comma and two equals signs.
C13_NamesEscaped ==
    NamesEncoded =>
        /\ BareCount(probe.out, " ") = 2
        /\ BareCount(probe.out, ",") = 1
        /\ BareCount(probe.out, "=") = 2

\* reversing the escape: the backslash before an escaped character is
\* dropped, left to right
RECURSIVE Unescape(_)
Unescape(s) ==
    IF s = <<>> THEN <<>>
    ELSE IF Head(s) = "\\" /\ Len(s) >= 2 /\ s[2] \in Special
         THEN <<s[2]>> \o Unescape(SubSeq(s, 3, Len(s)))
         ELSE <<Head(s)>> \o Unescape(Tail(s))

SpecialCount(s) == Cardinality({ i \in 1..Len(s) : s[i] \in Special })

Escaped == probe.fn = "lp_escape" /\ probe.done

\* C14: lp_escape is reversible and escapes no character twice: for every
\* string over backslash, space, comma, equals sign and ordinary characters,
\* dropping the backslash before each escaped character of lp_escape(s)
\* gives s back, lp_escape(s) is s with one backslash added per rewritten
\* character, and none of its spaces, commas and equals signs is bare.
C14_EscapeReversible ==
    Escaped =>
        /\ Unescape(probe.out) = probe.s
        /\ Len(probe.out) = Len(probe.s) + SpecialCount(probe.s)
        /\ \A c \in {" ", ",", "="} : BareCount(probe.out, c) = 0

\* a string that holds a backslash next to a space and an equals sign
C14_Witness ==
    /\ Escaped /\ probe.s = <<"\\", " ", "=">>
    /\ probe.out = <<"\\", "\\", "\\", " ", "\\", "=">>

\* --------------------------------------------- write_v2 with a high ceiling
\* One call of write_v2 with a ceiling of up to MaxCeiling attempts, enough
\* for 2**attempt to pass the cap of 30 seconds, against an endpoint that
\* answers each POST as it likes.
MaxCeiling == 7

InitB ==
    /\ loop = FALSE /\ argToken = Token /\ envToken = <<>>
    /\ print_raw = FALSE /\ tag = <<>> /\ measurement = DefaultMeasurement
    /\ pc = "w_enter" /\ exitKind = "running" /\ raising = "none"
    /\ cancelPending = FALSE /\ prelim = "none"
    /\ lines \in SampleBatches
    /\ evlog = <<>> /\ active = 0 /\ starts = 0 /\ startsOk = 0 /\ stops = 0
    /\ windows = 0
    /\ writeCalls = 1
    /\ max_retries \in 0..MaxCeiling
    /\ WriteInit /\ prevOutcome = "none"
    /\ endpoint = <<>>
    /\ LpInit

SpecB == InitB /\ [][NextW]_vars

\* comparisons of a duration with a whole number of seconds
AtLeast(d, n) == d.whole >= n
LessThan(d, n) == d.whole < n
AtMost(d, n) == d.whole < n \/ (d.whole = n /\ d.part = "none")

Sleeping == pc = "w_sleep"

\* C15 as stated: the backoff slept after the failed attempt of index k is
\* at least min(30, 2^k) seconds, less than 2^k + 1 seconds and never more
\* than 30 seconds.
C15_BackoffBelowNextSecond ==
    Sleeping =>
        /\ slept.some
        /\ AtLeast(slept.val, Min(BackoffCap, 2^attempt))
        /\ LessThan(slept.val, 2^attempt + 1)
        /\ AtMost(slept.val, BackoffCap)

\* C15 amended: the backoff slept after the failed attempt of index k is at
\* least min(30, 2^k) seconds, at most 2^k + 1 seconds and never more than
\* 30 seconds; no sleep follows the attempt of index max_retries - 1.
C15_BackoffBounds ==
    /\ Sleeping =>
          /\ slept.some
          /\ attempt < max_retries - 1
          /\ AtLeast(slept.val, Min(BackoffCap, 2^attempt))
          /\ AtMost(slept.val, 2^attempt + 1)
          /\ AtMost(slept.val, BackoffCap)
    /\ ~Sleeping => ~slept.some

\* the sleep after the sixth failed attempt: 2^5 is over the cap
C15_Witness ==
    Sleeping /\ attempt = 5 /\ slept = Some(Seconds(BackoffCap, "none"))

\* an event that carries the Govee key with a payload of at least 5 bytes
Qualifying(ev) == KEY_EC88 \in DOMAIN ev.man /\ Len(ev.man[KEY_EC88]) >= 5

QualifyingSeen == Cardinality({ i \in 1..Len(evlog) : Qualifying(evlog[i].ev) })

\* C16: within a scan window every qualifying event adds exactly one line to
\* the batch and every other event adds none, with no deduplication: the
\* batch is as long as the number of qualifying events received so far, and
\* each callback lengthens it by one or not at all according to its event.
C16_OneLinePerQualifyingEvent ==
    /\ [](Len(lines) = QualifyingSeen)
    /\ [][Len(evlog') = Len(evlog) + 1 =>
            /\ Len(lines') = Len(lines)
                    + (IF Qualifying(evlog'[Len(evlog')].ev) THEN 1 ELSE 0)
            /\ SubSeq(lines', 1, Len(lines)) = lines]_vars

\* two events of the same device in one window, two lines
C16_Witness ==
    /\ Len(evlog) = 2 /\ Len(lines) = 2
    /\ evlog[1].ev = evlog[2].ev /\ evlog[1].ev.address = <<"A", "1">>

\* C17: a batch gets at most one call of write_v2, and nothing is carried
\* from one cycle to the next: write_v2 is called at most once per scan
\* window, every window starts with an empty batch whatever became of the
\* previous one, and every POST body is the batch of the current window
\* only, one line per qualifying event of that window.
C17_NoCarryOver ==
    /\ [](writeCalls <= 1)
    /\ [](pc = "scan_start" => lines = <<>>)
    /\ [](body.some =>
            /\ body.val = Join(<<"\n">>, lines)
            /\ Len(lines) = QualifyingSeen
            /\ Len(SplitLines(body.val)) = QualifyingSeen)
    /\ [][pc = "scan_once" => lines' = <<>>]_vars
    /\ [][InWrite => lines' = lines]_vars

\* a POST of a one-line batch in the cycle after a delivery that failed
C17_Witness ==
    /\ loop /\ windows = 2 /\ prevOutcome = "failed"
    /\ body.some /\ Len(lines) = 1

\* C18: for every ceiling M >= 0 and every sequence of answers of the
\* endpoint, write_v2 makes at most M POSTs and sleeps only between two
\* consecutive attempts: when it returns the sleeps are one fewer than the
\* POSTs (none when there was no POST), a sleep is entered only after a
\* failed attempt that is not the last one allowed, and every sleep is
\* followed by another POST.
C18_SleepsBetweenAttempts ==
    /\ [](posts <= max_retries)
    /\ [](pc = "w_ret" => sleeps = (IF posts = 0 THEN 0 ELSE posts - 1))
    /\ [](pc = "w_post" => sleeps = posts /\ posts < max_retries)
    /\ [](pc = "w_sleep" =>
            /\ sleeps = posts - 1
            /\ posts < max_retries
            /\ endpoint[posts] \notin {"204", "200"})
    /\ [][pc = "w_sleep" => pc' = "w_post" /\ sleeps' = sleeps + 1]_vars
    /\ [][pc = "w_ret" => sleeps' = sleeps /\ posts' = posts]_vars

\* a call with ceiling 3 that failed: three POSTs, two sleeps
C18_Witness ==
    /\ pc = "w_ret" /\ max_retries = 3 /\ wOutcome = "failed"
    /\ posts = 3 /\ sleeps = 2

\* C19: an interrupt that arrives during a scan window or during the
\* inter-cycle sleep ends the run with no exception reaching the caller: in
\* the window the listener is stopped first and the run then ends as
\* interrupted, in the sleep the run ends at once with no session active;
\* no window is started and no POST is made afterwards, and the batch of the
\* interrupted window is never given to write_v2.
C19_InterruptEndsRunQuietly ==
    /\ [][pc = "window" /\ raising' = "KeyboardInterrupt" =>
            pc' = "scan_stop" /\ active' = 1 /\ exitKind' = "running"]_vars
    /\ [][pc = "scan_stop" /\ raising = "KeyboardInterrupt" =>
            /\ pc' = "exited" /\ exitKind' = "interrupt"
            /\ stops' = stops + 1 /\ active' = 0
            /\ writeCalls' = 0 /\ posts' = 0]_vars
    /\ [][pc = "sleep" /\ raising' = "KeyboardInterrupt" =>
            pc' = "exited" /\ exitKind' = "interrupt" /\ active' = 0]_vars
    /\ [][pc = "exited" => pc' = "exited" /\ starts' = starts /\ posts' = posts]_vars
    /\ [](Interrupted => ExitStatus = 0 /\ active = 0)

\* ------------------------------------- build_tags and the encoder together
\* The tags of one event, built from an advertised name, an address and up
\* to MaxExtras --tag entries, then encoded with one field.
MaxExtras == 2

TagEntries ==
    { <<"s", "i", "t", "e", "=", "l", "a", "b", " ", "1">>,
      <<"k", "=">>,
      <<"m", "a", "c", "=", " ">>,
      <<"n", "o", "v", "a", "l", "u", "e">> }

ExtraLists == UNION { [1..n -> TagEntries] : n \in 0..MaxExtras }

AdvertisedNames == { <<>>, <<"G", "V", "H", "5", "0", "7", "5">>, <<"a", " ", "b">> }

InitTags ==
    /\ Aside
    /\ \E name \in AdvertisedNames, extras \in ExtraLists :
          probe = [fn |-> "build_tags", done |-> FALSE, name |-> name,
                   mac |-> <<"A", "1">>, extras |-> extras,
                   tags |-> <<>>, out |-> <<>>]

\* tags = build_tags(name, dev.address, extra_tags);
\* lp = to_line_protocol(measurement, tags, fields, ts_ns)
TagAndEncode ==
    /\ probe.fn = "build_tags" /\ ~probe.done
    /\ LET tags == build_tags(probe.name, probe.mac, probe.extras)
       IN  probe' = [probe EXCEPT
                       !.done = TRUE,
                       !.tags = tags,
                       !.out = to_line_protocol(measurement, tags,
                                   << [k |-> <<"r", "s", "s", "i", "_", "d", "b", "m">>,
                                       v |-> IntVal(0 - 70)] >>,
                                   time_ns(0))]
    /\ UNCHANGED asideVars

NextTags == TagAndEncode

SpecTags == InitTags /\ [][NextTags]_vars

\* the place, from i on, of the first c of s that no backslash escapes (0: none)
RECURSIVE FirstBare(_, _, _)
FirstBare(s, c, i) ==
    IF i > Len(s) THEN 0
    ELSE IF s[i] = "\\" THEN FirstBare(s, c, i + 2)
    ELSE IF s[i] = c THEN i
    ELSE FirstBare(s, c, i + 1)

\* s cut at every c that no backslash escapes
RECURSIVE SplitBare(_, _)
SplitBare(s, c) ==
    LET i == FirstBare(s, c, 1)
    IN  IF i = 0 THEN <<s>>
        ELSE <<SubSeq(s, 1, i - 1)>> \o SplitBare(SubSeq(s, i + 1, Len(s)), c)

\* the tags of a line: what stands between the measurement and the first
\* bare space, cut at the bare commas
TagsOfLine(line) ==
    Tail(SplitBare(SubSeq(line, 1, FirstBare(line, " ", 1) - 1), ","))

\* a key, a bare equals sign and at least one character of value
HasValue(part) ==
    LET i == FirstBare(part, "=", 1) IN i > 0 /\ i < Len(part)

PresentTags(tags) == { i \in 1..Len(tags) : tags[i].v.some }

Tagged == probe.fn = "build_tags" /\ probe.done

\* C20: no line holds a tag with an empty value: for every advertised name,
\* address and list of extra tags, 'key=' entries included, the line has one
\* tag for each tag of build_tags whose value is present, each with a
\* non-empty value, and none for a tag whose value is absent.
C20_NoEmptyTagValue ==
    Tagged =>
        /\ Len(TagsOfLine(probe.out)) = Cardinality(PresentTags(probe.tags))
        /\ \A i \in 1..Len(TagsOfLine(probe.out)) : HasValue(TagsOfLine(probe.out)[i])

====
